---- MODULE Spec2Model ----
(***************************************************************************)
(* Model of save_resources.py: the notebook ingestion script.              *)
(*                                                                         *)
(* Python strings are TLA+ strings (sequences of characters); the string   *)
(* operations the script uses (in, str.replace, str.split, urlparse) are   *)
(* operators over them, computed as CPython computes them.                 *)
(***************************************************************************)
EXTENDS Naturals, Sequences, FiniteSets, TLC

(***************************************************************************)
(* Bounds of the model.                                                    *)
(***************************************************************************)
\* Longest resource_links list main() is run on.
MaxLinks == 2
\* Most path pieces appended to a base URL when the pure URL functions are
\* applied to generated URLs.
MaxPieces == 3
\* Longest resource_links list of an ingestion run that is followed by an
\* export.
MaxRunLinks == 1

(***************************************************************************)
(* Python str operations.                                                  *)
(***************************************************************************)
\* s[k:k+len(p)] == p
StartsAt(s, p, k) ==
    /\ k >= 1
    /\ k + Len(p) - 1 <= Len(s)
    /\ SubSeq(s, k, k + Len(p) - 1) = p

\* s.find(p, k), 1-based; 0 when p does not occur at or after position k.
Find(s, p, k) ==
    LET hits == {j \in k..(Len(s) + 1) : StartsAt(s, p, j)} IN
    IF hits = {} THEN 0
    ELSE CHOOSE j \in hits : \A h \in hits : j <= h

\* p in s
In(p, s) == Find(s, p, 1) # 0

\* s.replace(old, new) for a non-empty old: every non-overlapping occurrence,
\* found left to right; the text already produced is never scanned again.
RECURSIVE Replace(_, _, _)
Replace(s, old, new) ==
    LET k == Find(s, old, 1) IN
    IF k = 0 THEN s
    ELSE SubSeq(s, 1, k - 1) \o new
            \o Replace(SubSeq(s, k + Len(old), Len(s)), old, new)

\* s.split(sep) for a non-empty sep.
RECURSIVE Split(_, _)
Split(s, sep) ==
    LET k == Find(s, sep, 1) IN
    IF k = 0 THEN <<s>>
    ELSE <<SubSeq(s, 1, k - 1)>> \o Split(SubSeq(s, k + Len(sep), Len(s)), sep)

\* The least position >= k of a character of the set chars in s; Len(s) + 1
\* when there is none.
FirstOf(s, chars, k) ==
    LET hits == {j \in k..Len(s) : SubSeq(s, j, j) \in chars} IN
    IF hits = {} THEN Len(s) + 1
    ELSE CHOOSE j \in hits : \A h \in hits : j <= h

(***************************************************************************)
(* urllib.parse.urlparse, for URLs with a scheme.                          *)
(***************************************************************************)
urlparse(url) ==
    LET c      == Find(url, ":", 1)
        scheme == IF c = 0 THEN "" ELSE SubSeq(url, 1, c - 1)
        rest   == IF c = 0 THEN url ELSE SubSeq(url, c + 1, Len(url))
        hasNet == StartsAt(rest, "//", 1)
        afterS == IF hasNet THEN SubSeq(rest, 3, Len(rest)) ELSE rest
        n      == IF hasNet THEN FirstOf(afterS, {"/", "?", "#"}, 1) ELSE 1
        netloc == SubSeq(afterS, 1, n - 1)
        tail   == SubSeq(afterS, n, Len(afterS))
        f      == FirstOf(tail, {"#"}, 1)
        noFrag == SubSeq(tail, 1, f - 1)
        q      == FirstOf(noFrag, {"?"}, 1)
    IN  [scheme |-> scheme,
         netloc |-> netloc,
         path   |-> SubSeq(noFrag, 1, q - 1),
         query  |-> SubSeq(noFrag, q + 1, Len(noFrag))]

(***************************************************************************)
(* The raw-content rewrite of fetch_github_notebook.                       *)
(***************************************************************************)
rewrite(url) ==
    Replace(Replace(url, "github.com", "raw.githubusercontent.com"), "/blob", "")

(***************************************************************************)
(* Python values that cross the fetch / save boundary.  A value is its     *)
(* type and its text: for a str the characters, otherwise the JSON text.   *)
(***************************************************************************)
None == [type |-> "NoneType", repr |-> "None"]
Dict(r) == [type |-> "dict", repr |-> r]
List(r) == [type |-> "list", repr |-> r]
Str(r) == [type |-> "str", repr |-> r]
Int(r) == [type |-> "int", repr |-> r]

\* A notebook document as GitHub serves it.
NOTEBOOK_JSON == "{\"cells\": [], \"nbformat\": 4}"

\* bool(v), as `if content:` and `if not mongo_uri:` evaluate it.
Truthy(v) ==
    CASE v.type = "NoneType" -> FALSE
      [] v.type = "dict" -> v.repr # "{}"
      [] v.type = "list" -> v.repr # "[]"
      [] v.type = "str"  -> v.repr # ""
      [] v.type = "int"  -> v.repr # "0"

\* json.loads on the texts the model's downloads can carry: the parsed value,
\* or ok = FALSE for json.JSONDecodeError.
json_loads(text) ==
    CASE text = NOTEBOOK_JSON -> [ok |-> TRUE, val |-> Dict(NOTEBOOK_JSON)]
      [] text = "{}"   -> [ok |-> TRUE, val |-> Dict("{}")]
      [] text = "[1]"  -> [ok |-> TRUE, val |-> List("[1]")]
      [] text = "null" -> [ok |-> TRUE, val |-> None]
      [] text = "7"    -> [ok |-> TRUE, val |-> Int("7")]
      [] text = "\"{\\\"cells\\\": [], \\\"nbformat\\\": 4}\""
                       -> [ok |-> TRUE, val |-> Str(NOTEBOOK_JSON)]
      [] text = "\"[1]\"" -> [ok |-> TRUE, val |-> Str("[1]")]
      [] text = "\"x\""   -> [ok |-> TRUE, val |-> Str("x")]
      [] OTHER -> [ok |-> FALSE, val |-> None]

(***************************************************************************)
(* Exceptions: a class is caught by a handler naming it or a base of it.   *)
(***************************************************************************)
Bases(cls) ==
    CASE cls = "ConnectionError" -> {"ConnectionError", "RequestException", "OSError", "Exception"}
      [] cls = "HTTPError"       -> {"HTTPError", "RequestException", "OSError", "Exception"}
      [] cls = "JSONDecodeError" -> {"JSONDecodeError", "ValueError", "Exception"}
      [] cls = "UnicodeDecodeError" -> {"UnicodeDecodeError", "ValueError", "Exception"}
      [] cls = "ValueError"      -> {"ValueError", "Exception"}
      [] cls = "TypeError"       -> {"TypeError", "Exception"}
      [] cls = "HttpError"       -> {"HttpError", "Error", "Exception"}
      [] cls = "RefreshError"    -> {"RefreshError", "GoogleAuthError", "Exception"}
      [] cls = "PyMongoError"    -> {"PyMongoError", "Exception"}
      [] OTHER                   -> {cls}

Caught(cls, handlers) == Bases(cls) \cap handlers # {}

\* What a call comes back with: a return value, or an exception left uncaught.
Return(v) == [ret |-> v, raised |-> "none"]
Raise(cls) == [ret |-> None, raised |-> cls]

(***************************************************************************)
(* fetch_github_notebook: resp is what requests.get(raw_url) does.         *)
(***************************************************************************)
\* requests.get raises resp.error, or returns a response with a status and text.
Bodies ==
    {NOTEBOOK_JSON, "{}", "[1]", "null", "7",
     "\"{\\\"cells\\\": [], \\\"nbformat\\\": 4}\"", "\"[1]\"", "\"x\"",
     "<!DOCTYPE html>"}

Responses ==
    {[error |-> "ConnectionError", status |-> 0, text |-> ""],
     [error |-> "none", status |-> 404, text |-> "404: Not Found"]}
    \cup {[error |-> "none", status |-> 200, text |-> b] : b \in Bodies}

\* The exception the try body of fetch_github_notebook raises before parsing.
request_raises(resp) ==
    IF resp.error # "none" THEN resp.error
    ELSE IF resp.status >= 400 THEN "HTTPError"
    ELSE "none"

\* fetch_github_notebook without the inner handler for json.JSONDecodeError.
fetch_github_notebook_parse_unguarded(url, resp) ==
    LET thrown == request_raises(resp)
        parsed == json_loads(resp.text)
    IN  IF thrown # "none"
        THEN IF Caught(thrown, {"RequestException"}) THEN Return(None)
             ELSE Raise(thrown)
        ELSE IF parsed.ok THEN Return(parsed.val)
        ELSE IF Caught("JSONDecodeError", {"RequestException"}) THEN Return(None)
        ELSE Raise("JSONDecodeError")

\* fetch_github_notebook whose outer handler names ConnectionError only.
fetch_github_notebook_narrow_except(url, resp) ==
    LET thrown == request_raises(resp)
        parsed == json_loads(resp.text)
    IN  IF thrown # "none"
        THEN IF Caught(thrown, {"ConnectionError"}) THEN Return(None)
             ELSE Raise(thrown)
        ELSE IF parsed.ok THEN Return(parsed.val)
        ELSE Return(None)

fetch_github_notebook(url, resp) ==
    LET thrown == request_raises(resp)
        parsed == json_loads(resp.text)
    IN  IF thrown # "none"
        THEN IF Caught(thrown, {"RequestException"}) THEN Return(None)
             ELSE Raise(thrown)
        ELSE IF parsed.ok THEN Return(parsed.val)
        ELSE IF Caught("JSONDecodeError", {"JSONDecodeError"}) THEN Return(None)
        ELSE IF Caught("JSONDecodeError", {"RequestException"}) THEN Return(None)
        ELSE Raise("JSONDecodeError")

(***************************************************************************)
(* fetch_colab_notebook: world is what the Drive download does.            *)
(***************************************************************************)
\* parse_qs(query).get(name, [None])[0]: the first non-blank value given for
\* name, "" when there is none.
parse_qs_first(query, name) ==
    LET pairs == Split(query, "&")
        hits  == {k \in 1..Len(pairs) :
                    /\ StartsAt(pairs[k], name \o "=", 1)
                    /\ Len(pairs[k]) > Len(name) + 1}
        first == CHOOSE k \in hits : \A h \in hits : k <= h
    IN  IF hits = {} THEN ""
        ELSE SubSeq(pairs[first], Len(name) + 2, Len(pairs[first]))

\* The file id the function reads from the URL, "" when it finds none.
colab_file_id(url) ==
    LET parsed_url == urlparse(url)
        from_query == parse_qs_first(parsed_url.query, "id")
        path_parts == Split(parsed_url.path, "/")
        drives     == {k \in 1..Len(path_parts) : path_parts[k] = "drive"}
        drive_index == CHOOSE k \in drives : \A h \in drives : k <= h
    IN  IF from_query # "" THEN from_query
        ELSE IF drives # {} /\ Len(path_parts) > drive_index
        THEN path_parts[drive_index + 1]
        ELSE ""

\* get_credentials / build / next_chunk / decode raise world.error, or the
\* download yields world.text.
ColabWorlds ==
    {[error |-> e, status |-> 0, text |-> ""] :
        e \in {"ValueError", "RefreshError", "HttpError", "UnicodeDecodeError"}}
    \cup {[error |-> "none", status |-> 200, text |-> b] : b \in Bodies}

fetch_colab_notebook(url, world) ==
    LET file_id == colab_file_id(url)
        parsed  == json_loads(world.text)
        thrown  == IF world.error # "none" THEN world.error
                   ELSE IF ~parsed.ok THEN "JSONDecodeError"
                   ELSE "none"
    IN  IF file_id = "" THEN Return(None)
        ELSE IF thrown = "none" THEN Return(parsed.val)
        ELSE IF Caught(thrown, {"Exception"}) THEN Return(None)
        ELSE Raise(thrown)

(***************************************************************************)
(* save_to_mongodb up to its insert_one call: whether a notebook is        *)
(* inserted, and which.                                                    *)
(***************************************************************************)
NoNotebook == [url |-> "", content |-> None, date_saved |-> 0]

Notebook(url, content, now) == [url |-> url, content |-> content, date_saved |-> now]

\* save_to_mongodb storing the URL that was requested instead of the link.
save_to_mongodb_raw_url(url, content, now) ==
    IF ~Truthy(content) THEN [insert |-> FALSE, notebook |-> NoNotebook]
    ELSE IF content.type = "dict"
    THEN [insert |-> TRUE, notebook |-> Notebook(rewrite(url), content, now)]
    ELSE IF content.type # "str"
    THEN [insert |-> FALSE, notebook |-> NoNotebook]
    ELSE LET parsed == json_loads(content.repr) IN
         IF parsed.ok
         THEN [insert |-> TRUE, notebook |-> Notebook(rewrite(url), parsed.val, now)]
         ELSE [insert |-> FALSE, notebook |-> NoNotebook]

save_to_mongodb(url, content, now) ==
    IF ~Truthy(content) THEN [insert |-> FALSE, notebook |-> NoNotebook]
    ELSE IF content.type = "dict"
    THEN [insert |-> TRUE, notebook |-> Notebook(url, content, now)]
    ELSE IF content.type # "str"
    THEN \* json.loads of a non-string: TypeError, caught
         [insert |-> FALSE, notebook |-> NoNotebook]
    ELSE LET parsed == json_loads(content.repr) IN
         IF parsed.ok
         THEN [insert |-> TRUE, notebook |-> Notebook(url, parsed.val, now)]
         ELSE [insert |-> FALSE, notebook |-> NoNotebook]

(***************************************************************************)
(* The program state.                                                      *)
(***************************************************************************)
VARIABLES
    environ,         \* MONGODB_CONNECTION_STRING in the process environment
    pc,              \* where the process is
    exc,             \* the exception that ended the process, or "none"
    client,          \* the MongoClient: <<>> until created, then <<uri>>
    resource_links,  \* main's list of links
    colab_links,     \* main's Colab sub-list
    github_links,    \* main's GitHub sub-list
    i,               \* position of process_github_links in github_links
    content,         \* content in process_github_links: what the fetch returned
    notebook,        \* notebook in save_to_mongodb: the document being inserted
    inflight,        \* external requests issued and not yet answered
    collection,      \* db.resources, in insertion order
    clock,           \* datetime.datetime.now()
    log,             \* every external call issued and every answer, in order
    files,           \* the output directory of the export: file name, data
    count,           \* count in export_notebooks_from_mongodb
    j,               \* position of the export loop in the collection
    outcomes,        \* how the export of each record so far ended, in order
    fn, arg, world, result,  \* a function applied on its own: its name, its
                     \* argument, what the network did, and the outcome
    epc,             \* where the enrichment pass is
    doc,             \* position of the enrichment pass in the collection
    text,            \* the text extracted from the record being enriched
    metadata,        \* the derived fields gathered for that record
    calls,           \* the sub-steps done for that record, in order
    crashes,         \* how many times the enrichment pass died mid-record
    spc,             \* where a search is
    filters,         \* the filters of the search
    limit,           \* the limit of the search
    candidates,      \* what the vector search returned
    results          \* what the search returns

vars == <<environ, pc, exc, client, resource_links, colab_links, github_links,
          i, content, notebook, inflight, collection, clock, log,
          files, count, j, outcomes, fn, arg, world, result,
          epc, doc, text, metadata, calls, crashes,
          spc, filters, limit, candidates, results>>

ingest == <<environ, pc, exc, client, resource_links, colab_links, github_links,
            i, content, notebook, inflight, collection, clock, log>>

unit == <<fn, arg, world, result>>

export == <<files, count, j, outcomes>>

enrichment == <<epc, doc, text, metadata, calls, crashes>>

search == <<spc, filters, limit, candidates, results>>

derived == <<enrichment, search>>

(***************************************************************************)
(* Entries of main's resource_links literal the model draws its lists from.*)
(***************************************************************************)
COLAB_LINK == "https://colab.research.google.com/drive/1hDc7mFYqFKmuHZFxBI6Wmbko0aV7gocT"
GITHUB_LINK == "https://github.com/ds-modules/LINGUIS-110/blob/master/VOT/Assignment.ipynb"
GITHUB_REPO_LINK == "https://github.com/ds-modules/XENGLIS-31AC"
\* Adjacent string literals with no comma between them: one entry.
JOINED_LINK ==
    "https://colab.research.google.com/drive/16BhLaHexd9_7DuajUw7Jg8aOlcxhhLQT"
    \o "https://github.com/ds-modules/LINGUIS-110/blob/master/FormantsUpdated/Assignment.ipynb"

LinkPool == {COLAB_LINK, GITHUB_LINK, GITHUB_REPO_LINK, JOINED_LINK}

LinkLists == UNION {[1..n -> LinkPool] : n \in 0..MaxLinks}

\* os.getenv("MONGODB_CONNECTION_STRING"): None when unset, else the string.
getenv(env) == IF env.set THEN Str(env.val) ELSE None

EnvValues ==
    {[set |-> FALSE, val |-> ""],
     [set |-> TRUE, val |-> ""],
     [set |-> TRUE, val |-> "mongodb://localhost:27017"]}

\* What db.resources holds when the process starts: nothing, or a record an
\* earlier run saved.
StoredBefore == {<<>>, <<Notebook(GITHUB_LINK, Dict(NOTEBOOK_JSON), 0)>>}

Event(ev, link, what) == [ev |-> ev, link |-> link, what |-> what]

InitIngest ==
    /\ environ \in EnvValues
    /\ pc = "import"
    /\ exc = "none"
    /\ client = <<>>
    /\ resource_links \in LinkLists
    /\ colab_links = <<>>
    /\ github_links = <<>>
    /\ i = 0
    /\ content = None
    /\ notebook = NoNotebook
    /\ inflight = {}
    /\ collection \in StoredBefore
    /\ clock = 1
    /\ log = <<>>

InitUnit ==
    /\ fn = "none"
    /\ arg = ""
    /\ world = [error |-> "none", status |-> 0, text |-> ""]
    /\ result = Return(None)

InitExport ==
    /\ files = {}
    /\ count = 0
    /\ j = 0
    /\ outcomes = <<>>

\* No field gathered yet.
EmptyMetadata ==
    [language |-> None, context |-> None, sequence_position |-> None,
     cs_concepts |-> None, vector_embedding |-> None]

NoFilters ==
    [language |-> None, course_level |-> None, context |-> None,
     sequence_position |-> None]

\* The enrichment pass is not running.
InitEnrichment ==
    /\ epc = "off"
    /\ doc = 0
    /\ text = ""
    /\ metadata = EmptyMetadata
    /\ calls = <<>>
    /\ crashes = 0

\* No search is running.
InitSearch ==
    /\ spc = "off"
    /\ filters = NoFilters
    /\ limit = 0
    /\ candidates = <<>>
    /\ results = <<>>

Init == InitIngest /\ InitUnit /\ InitExport /\ InitEnrichment /\ InitSearch

(***************************************************************************)
(* Module level code: configuration check and database handle.             *)
(***************************************************************************)
\* The module level code without the check of mongo_uri.
module_startup_unchecked ==
    /\ pc = "import"
    /\ pc' = "loaded"
    /\ exc' = exc
    /\ client' = <<environ.val>>
    /\ UNCHANGED <<environ, resource_links, colab_links, github_links, i,
                   content, notebook, inflight, collection, clock, log>>
    /\ UNCHANGED unit
    /\ UNCHANGED derived
    /\ UNCHANGED export

module_startup ==
    /\ pc = "import"
    /\ IF ~Truthy(getenv(environ))
       THEN /\ pc' = "raised"
            /\ exc' = "ValueError"
            /\ client' = client
       ELSE /\ pc' = "loaded"
            /\ exc' = exc
            /\ client' = <<environ.val>>
    /\ UNCHANGED <<environ, resource_links, colab_links, github_links, i,
                   content, notebook, inflight, collection, clock, log>>
    /\ UNCHANGED unit
    /\ UNCHANGED derived
    /\ UNCHANGED export

(***************************************************************************)
(* main: the two filters over resource_links.                              *)
(***************************************************************************)
is_colab(x) == In("colab.research.google.com", x)
is_github(x) == In("github.com", x)

main ==
    /\ pc = "loaded"
    /\ colab_links' = SelectSeq(resource_links, is_colab)
    /\ github_links' = SelectSeq(resource_links, is_github)
    /\ pc' = "colab"
    /\ UNCHANGED <<environ, exc, client, resource_links, i, content, notebook,
                   inflight, collection, clock, log>>
    /\ UNCHANGED unit
    /\ UNCHANGED derived
    /\ UNCHANGED export

(***************************************************************************)
(* process_colab_links: the body is a string literal, nothing runs.        *)
(***************************************************************************)
\* process_colab_links with its loop running: the first link is fetched with
\* the user's credentials and saved.
process_colab_links_enabled ==
    /\ pc = "colab"
    /\ pc' = "github"
    /\ i' = 1
    /\ IF colab_links = <<>>
       THEN UNCHANGED <<log, collection, clock>>
       ELSE /\ log' = log \o <<Event("get_credentials", 1, colab_links[1]),
                               Event("insert_one", 1, colab_links[1])>>
            /\ collection' = Append(collection,
                    Notebook(colab_links[1], Dict(NOTEBOOK_JSON), clock))
            /\ clock' = clock + 1
    /\ UNCHANGED <<environ, exc, client, resource_links, colab_links,
                   github_links, content, notebook, inflight>>
    /\ UNCHANGED unit
    /\ UNCHANGED derived
    /\ UNCHANGED export

process_colab_links ==
    /\ pc = "colab"
    /\ pc' = "github"
    /\ i' = 1
    /\ UNCHANGED <<environ, exc, client, resource_links, colab_links,
                   github_links, content, notebook, inflight, collection,
                   clock, log>>
    /\ UNCHANGED unit
    /\ UNCHANGED derived
    /\ UNCHANGED export

(***************************************************************************)
(* process_github_links: for each link, fetch then save.                   *)
(***************************************************************************)
\* The loop head: the next link's fetch issues its GET, or the loop ends and
\* main returns.
process_github_links ==
    /\ pc = "github"
    /\ IF i > Len(github_links)
       THEN /\ pc' = "done"
            /\ UNCHANGED <<inflight, log>>
       ELSE /\ pc' = "get"
            /\ inflight' = inflight \cup {Event("GET", i, rewrite(github_links[i]))}
            /\ log' = Append(log, Event("GET", i, rewrite(github_links[i])))
    /\ UNCHANGED <<environ, exc, client, resource_links, colab_links,
                   github_links, i, content, notebook, collection, clock>>
    /\ UNCHANGED unit
    /\ UNCHANGED derived
    /\ UNCHANGED export

\* requests.get comes back; fetch_github_notebook returns to the loop.
requests_get_returns ==
    /\ pc = "get"
    /\ \E resp \in Responses :
         LET r == fetch_github_notebook(github_links[i], resp) IN
         /\ inflight' = inflight \ {Event("GET", i, rewrite(github_links[i]))}
         /\ log' = Append(log, IF request_raises(resp) # "none"
                                THEN Event("raised", i, request_raises(resp))
                                ELSE Event("response", i, resp.text))
         /\ IF r.raised # "none"
            THEN /\ pc' = "crashed"
                 /\ exc' = r.raised
                 /\ content' = content
            ELSE /\ pc' = "save"
                 /\ exc' = exc
                 /\ content' = r.ret
    /\ UNCHANGED <<environ, client, resource_links, colab_links, github_links,
                   i, notebook, collection, clock>>
    /\ UNCHANGED unit
    /\ UNCHANGED derived
    /\ UNCHANGED export

\* save_to_mongodb(link, content) up to insert_one, or to its return when it
\* inserts nothing.
\* The loop fetching a link again when nothing was saved for it.
call_save_to_mongodb_retry ==
    /\ pc = "save"
    /\ LET s == save_to_mongodb(github_links[i], content, clock) IN
       IF s.insert
       THEN /\ pc' = "insert"
            /\ notebook' = s.notebook
            /\ clock' = clock + 1
            /\ inflight' = inflight \cup {Event("insert_one", i, s.notebook.url)}
            /\ log' = Append(log, Event("insert_one", i, s.notebook.url))
       ELSE /\ pc' = "github"
            /\ UNCHANGED <<notebook, clock, inflight, log>>
    /\ i' = i
    /\ UNCHANGED <<environ, exc, client, resource_links, colab_links,
                   github_links, content, collection>>
    /\ UNCHANGED unit
    /\ UNCHANGED derived
    /\ UNCHANGED export

\* save_to_mongodb returning without waiting for insert_one to come back.
call_save_to_mongodb_async ==
    /\ pc = "save"
    /\ LET s == save_to_mongodb(github_links[i], content, clock) IN
       IF s.insert
       THEN /\ notebook' = s.notebook
            /\ clock' = clock + 1
            /\ inflight' = inflight \cup {Event("insert_one", i, s.notebook.url)}
            /\ log' = Append(log, Event("insert_one", i, s.notebook.url))
       ELSE UNCHANGED <<notebook, clock, inflight, log>>
    /\ pc' = "github"
    /\ i' = i + 1
    /\ UNCHANGED <<environ, exc, client, resource_links, colab_links,
                   github_links, content, collection>>
    /\ UNCHANGED unit
    /\ UNCHANGED derived
    /\ UNCHANGED export

call_save_to_mongodb ==
    /\ pc = "save"
    /\ LET s == save_to_mongodb(github_links[i], content, clock) IN
       IF s.insert
       THEN /\ pc' = "insert"
            /\ notebook' = s.notebook
            /\ clock' = clock + 1
            /\ inflight' = inflight \cup {Event("insert_one", i, s.notebook.url)}
            /\ log' = Append(log, Event("insert_one", i, s.notebook.url))
            /\ i' = i
       ELSE /\ pc' = "github"
            /\ i' = i + 1
            /\ UNCHANGED <<notebook, clock, inflight, log>>
    /\ UNCHANGED <<environ, exc, client, resource_links, colab_links,
                   github_links, content, collection>>
    /\ UNCHANGED unit
    /\ UNCHANGED derived
    /\ UNCHANGED export

\* The insert preceded by the removal of the records stored under the url.
insert_one_returns_dedupe ==
    /\ pc = "insert"
    /\ \E ok \in BOOLEAN :
         /\ inflight' = inflight \ {Event("insert_one", i, notebook.url)}
         /\ IF ok
            THEN /\ collection' =
                        Append(SelectSeq(collection,
                                         LAMBDA r : r.url # notebook.url),
                               notebook)
                 /\ log' = Append(log, Event("inserted", i, notebook.url))
                 /\ pc' = "github"
                 /\ i' = i + 1
                 /\ exc' = exc
            ELSE /\ collection' = collection
                 /\ log' = Append(log, Event("insert_failed", i, "PyMongoError"))
                 /\ pc' = "crashed"
                 /\ i' = i
                 /\ exc' = "PyMongoError"
    /\ UNCHANGED <<environ, client, resource_links, colab_links, github_links,
                   content, notebook, clock>>
    /\ UNCHANGED unit
    /\ UNCHANGED derived
    /\ UNCHANGED export

\* insert_one comes back: the document is stored, or the driver raises.
insert_one_returns ==
    /\ pc = "insert"
    /\ \E ok \in BOOLEAN :
         /\ inflight' = inflight \ {Event("insert_one", i, notebook.url)}
         /\ IF ok
            THEN /\ collection' = Append(collection, notebook)
                 /\ log' = Append(log, Event("inserted", i, notebook.url))
                 /\ pc' = "github"
                 /\ i' = i + 1
                 /\ exc' = exc
            ELSE /\ collection' = collection
                 /\ log' = Append(log, Event("insert_failed", i, "PyMongoError"))
                 /\ pc' = "crashed"
                 /\ i' = i
                 /\ exc' = "PyMongoError"
    /\ UNCHANGED <<environ, client, resource_links, colab_links, github_links,
                   content, notebook, clock>>
    /\ UNCHANGED unit
    /\ UNCHANGED derived
    /\ UNCHANGED export

(***************************************************************************)
(* export_notebooks_from_mongodb, called once main has returned.           *)
(***************************************************************************)
\* "_".join(parts)
RECURSIVE Join(_, _)
Join(sep, parts) ==
    IF parts = <<>> THEN ""
    ELSE IF Len(parts) = 1 THEN parts[1]
    ELSE parts[1] \o sep \o Join(sep, Tail(parts))

\* s.endswith(suffix)
EndsWith(s, suffix) ==
    /\ Len(suffix) <= Len(s)
    /\ SubSeq(s, Len(s) - Len(suffix) + 1, Len(s)) = suffix

\* parts[:2]
FirstTwo(parts) == SubSeq(parts, 1, IF Len(parts) < 2 THEN Len(parts) ELSE 2)

\* The file name the export loop derives from a record's url; n is count.
export_filename(url, n) ==
    LET parts  == Split(Replace(url, "https://github.com/", ""), "/")
        github == "github_" \o Join("_", FirstTwo(parts)) \o "_" \o parts[Len(parts)]
        split  == Split(url, "/")
        filename ==
            IF In("colab.research.google.com", url)
            THEN "colab_" \o split[Len(split)] \o ".ipynb"
            ELSE IF In("github.com", url)
            THEN IF In("blob", github) THEN Replace(github, "blob_", "") ELSE github
            ELSE "notebook_" \o ToString(n) \o ".ipynb"
    IN  IF EndsWith(filename, ".ipynb") THEN filename ELSE filename \o ".ipynb"

\* What open(filepath, "w") and json.dump do to the output directory: the file
\* is created or truncated by open, and holds the whole document only when
\* json.dump ran to its end.
WriteOutcomes == {"written", "open_failed", "dump_failed"}

\* How one iteration of the export loop can end for a record: KeyError at
\* notebook["url"]; open fails; open succeeds and notebook["content"] is a
\* KeyError; json.dump fails; or the file is written.
export_outcomes(record) ==
    IF "url" \notin DOMAIN record THEN {"no_url"}
    ELSE IF "content" \notin DOMAIN record THEN {"open_failed", "no_content"}
    ELSE WriteOutcomes

write_file(dir, name, data, outcome) ==
    CASE outcome = "open_failed" -> dir
      [] outcome = "no_content" ->
            {f \in dir : f.name # name}
                \cup {[name |-> name, data |-> None, complete |-> FALSE]}
      [] outcome = "dump_failed" ->
            {f \in dir : f.name # name}
                \cup {[name |-> name, data |-> data, complete |-> FALSE]}
      [] outcome = "written" ->
            {f \in dir : f.name # name}
                \cup {[name |-> name, data |-> data, complete |-> TRUE]}

\* The call, after an ingestion run or after an earlier export: the output
\* directory is there or is made, find({}) opens the scan.
export_notebooks_from_mongodb ==
    /\ pc \in {"done", "exported"}
    /\ pc' = "export"
    /\ count' = 0
    /\ j' = 1
    /\ outcomes' = <<>>
    /\ UNCHANGED files
    /\ UNCHANGED <<environ, exc, client, resource_links, colab_links,
                   github_links, i, content, notebook, inflight, collection,
                   clock, log>>
    /\ UNCHANGED unit
    /\ UNCHANGED derived

\* The loop with count incremented before the file is written.
export_notebook_counts_first ==
    /\ pc = "export"
    /\ IF j > Len(collection)
       THEN /\ pc' = "exported"
            /\ UNCHANGED <<files, count, j, outcomes>>
       ELSE \E outcome \in export_outcomes(collection[j]) :
            /\ files' = IF outcome = "no_url" THEN files
                        ELSE write_file(files,
                                 export_filename(collection[j].url, count),
                                 IF outcome = "no_content" THEN None
                                 ELSE collection[j].content,
                                 outcome)
            /\ count' = count + 1
            /\ outcomes' = Append(outcomes, outcome)
            /\ j' = j + 1
            /\ pc' = pc
    /\ UNCHANGED <<environ, exc, client, resource_links, colab_links,
                   github_links, i, content, notebook, inflight, collection,
                   clock, log>>
    /\ UNCHANGED unit
    /\ UNCHANGED derived

\* One iteration of the loop over all_notebooks, or its end.
export_notebook ==
    /\ pc = "export"
    /\ IF j > Len(collection)
       THEN /\ pc' = "exported"
            /\ UNCHANGED <<files, count, j, outcomes>>
       ELSE \E outcome \in export_outcomes(collection[j]) :
            /\ files' = IF outcome = "no_url" THEN files
                        ELSE write_file(files,
                                 export_filename(collection[j].url, count),
                                 IF outcome = "no_content" THEN None
                                 ELSE collection[j].content,
                                 outcome)
            /\ count' = IF outcome = "written" THEN count + 1 ELSE count
            /\ outcomes' = Append(outcomes, outcome)
            /\ j' = j + 1
            /\ pc' = pc
    /\ UNCHANGED <<environ, exc, client, resource_links, colab_links,
                   github_links, i, content, notebook, inflight, collection,
                   clock, log>>
    /\ UNCHANGED unit
    /\ UNCHANGED derived

Next ==
    \/ module_startup
    \/ main
    \/ process_colab_links
    \/ process_github_links
    \/ requests_get_returns
    \/ call_save_to_mongodb
    \/ insert_one_returns

Spec == Init /\ [][Next]_vars

(***************************************************************************)
(* The operations of the system one after the other: an ingestion run,     *)
(* then an export of what is stored.                                       *)
(***************************************************************************)
InitSystem == Init /\ Len(resource_links) <= MaxRunLinks

NextSystem ==
    \/ Next
    \/ export_notebooks_from_mongodb
    \/ export_notebook

SystemSpec == InitSystem /\ [][NextSystem]_vars

(***************************************************************************)
(* The export on its own, over collections of up to MaxStored documents:   *)
(* documents as save_to_mongodb stores them, and documents of other        *)
(* writers that lack content or url.                                       *)
(***************************************************************************)
MaxStored == 2

StoredDocuments ==
    {Notebook(GITHUB_LINK, Dict(NOTEBOOK_JSON), 0),
     Notebook("https://nbviewer.org/notebook", Dict(NOTEBOOK_JSON), 0),
     [url |-> COLAB_LINK, date_saved |-> 0],
     [content |-> Dict(NOTEBOOK_JSON), date_saved |-> 0]}

InitExporting ==
    /\ environ = [set |-> TRUE, val |-> "mongodb://localhost:27017"]
    /\ pc = "done"
    /\ exc = "none"
    /\ client = <<environ.val>>
    /\ resource_links = <<>>
    /\ colab_links = <<>>
    /\ github_links = <<>>
    /\ i = 0
    /\ content = None
    /\ notebook = NoNotebook
    /\ inflight = {}
    /\ collection \in UNION {[1..n -> StoredDocuments] : n \in 0..MaxStored}
    /\ clock = 1
    /\ log = <<>>
    /\ InitUnit
    /\ InitExport
    /\ InitEnrichment
    /\ InitSearch

NextExport ==
    \/ export_notebooks_from_mongodb
    \/ export_notebook

ExportSpec == InitExporting /\ [][NextExport]_vars

(***************************************************************************)
(* The URL functions and the two fetchers applied on their own, to URLs    *)
(* built from a base and up to MaxPieces path pieces.                      *)
(***************************************************************************)
UrlBases ==
    {"https://github.com/ds-modules/LINGUIS-110/blob/master",
     "https://colab.research.google.com"}

Pieces == {"/bl", "/blob", "ob", ".io", "/drive/1hDc7", "?id=1hDc7"}

RECURSIVE Concat(_)
Concat(seq) == IF seq = <<>> THEN "" ELSE Head(seq) \o Concat(Tail(seq))

UnitUrls ==
    {b \o Concat(ps) : b \in UrlBases,
                       ps \in UNION {[1..n -> Pieces] : n \in 0..MaxPieces}}

NoResponse == [error |-> "none", status |-> 0, text |-> ""]

InitApply ==
    /\ environ = [set |-> FALSE, val |-> ""]
    /\ pc = "import"
    /\ exc = "none"
    /\ client = <<>>
    /\ resource_links = <<>>
    /\ colab_links = <<>>
    /\ github_links = <<>>
    /\ i = 0
    /\ content = None
    /\ notebook = NoNotebook
    /\ inflight = {}
    /\ collection = <<>>
    /\ clock = 1
    /\ log = <<>>
    /\ InitExport
    /\ InitEnrichment
    /\ InitSearch
    /\ fn = "none"
    /\ arg \in UnitUrls
    /\ world = NoResponse
    /\ result = Return(None)

apply_rewrite ==
    /\ fn = "none"
    /\ fn' = "rewrite"
    /\ world' = world
    /\ result' = Return(Str(rewrite(arg)))
    /\ UNCHANGED arg
    /\ UNCHANGED ingest
    /\ UNCHANGED derived
    /\ UNCHANGED export

apply_fetch_github_notebook ==
    /\ fn = "none"
    /\ fn' = "fetch_github_notebook"
    /\ \E resp \in Responses :
         /\ world' = resp
         /\ result' = fetch_github_notebook(arg, resp)
    /\ UNCHANGED arg
    /\ UNCHANGED ingest
    /\ UNCHANGED derived
    /\ UNCHANGED export

apply_fetch_colab_notebook ==
    /\ fn = "none"
    /\ fn' = "fetch_colab_notebook"
    /\ \E w \in ColabWorlds :
         /\ world' = w
         /\ result' = fetch_colab_notebook(arg, w)
    /\ UNCHANGED arg
    /\ UNCHANGED ingest
    /\ UNCHANGED derived
    /\ UNCHANGED export

NextApply ==
    \/ apply_rewrite
    \/ apply_fetch_github_notebook
    \/ apply_fetch_colab_notebook

ApplySpec == InitApply /\ [][NextApply]_vars

(***************************************************************************)
(* Enrichment, as the design document describes it (sections 4.2 to 4.5):  *)
(* its code is not in src/.                                                *)
(***************************************************************************)
\* Most enrichment passes that die mid-record.
MaxCrashes == 1
\* Most records of the collection an enrichment pass starts from.
MaxRecords == 1

Min(a, b) == IF a < b THEN a ELSE b

Prefix(s, n) == SubSeq(s, 1, Min(Len(s), n))

LowerChar(c) ==
    CASE c = "A" -> "a" [] c = "B" -> "b" [] c = "C" -> "c" [] c = "D" -> "d"
      [] c = "E" -> "e" [] c = "F" -> "f" [] c = "G" -> "g" [] c = "H" -> "h"
      [] c = "I" -> "i" [] c = "J" -> "j" [] c = "K" -> "k" [] c = "L" -> "l"
      [] c = "M" -> "m" [] c = "N" -> "n" [] c = "O" -> "o" [] c = "P" -> "p"
      [] c = "Q" -> "q" [] c = "R" -> "r" [] c = "S" -> "s" [] c = "T" -> "t"
      [] c = "U" -> "u" [] c = "V" -> "v" [] c = "W" -> "w" [] c = "X" -> "x"
      [] c = "Y" -> "y" [] c = "Z" -> "z" [] OTHER -> c

\* The lowercased text.
RECURSIVE Lower(_)
Lower(s) ==
    IF Len(s) = 0 THEN ""
    ELSE IF Len(s) = 1 THEN LowerChar(s)
    ELSE LET half == Len(s) \div 2
         IN  Lower(SubSeq(s, 1, half)) \o Lower(SubSeq(s, half + 1, Len(s)))

\* A notebook with a markdown cell, a code cell and a cell of another type.
CELLS_NOTEBOOK_JSON ==
    "{\"cells\": [{\"cell_type\": \"markdown\", \"source\": \"Intro\"}, "
    \o "{\"cell_type\": \"code\", \"source\": [\"b\", \"()\"]}, "
    \o "{\"cell_type\": \"raw\", \"source\": \"x\"}], \"nbformat\": 4}"

\* The cells of a notebook document: type tag and source lines.
cells_of(document) ==
    IF document = Dict(CELLS_NOTEBOOK_JSON)
    THEN <<[cell_type |-> "markdown", source |-> <<"Intro">>],
           [cell_type |-> "code", source |-> <<"b", "()">>],
           [cell_type |-> "raw", source |-> <<"x">>]>>
    ELSE <<>>

\* Section 4.2: markdown cells append their joined source, code cells theirs
\* after a space, other cells nothing, in document order.
RECURSIVE extract_cells(_)
extract_cells(cells) ==
    IF cells = <<>> THEN ""
    ELSE LET cell == Head(cells)
             piece == IF cell.cell_type = "markdown"
                      THEN Concat(cell.source)
                      ELSE IF cell.cell_type = "code"
                      THEN " " \o Concat(cell.source)
                      ELSE ""
         IN  piece \o extract_cells(Tail(cells))

extract_text_from_notebook(document) == extract_cells(cells_of(document))

\* Section 4.3, with "end" looked for before "beginning".
normalize_sequence_position_end_first(raw) ==
    LET low == Lower(raw)
    IN  IF In("end", low) THEN "end"
        ELSE IF In("beginning", low) THEN "beginning"
        ELSE "middle"

\* Section 4.3: the raw response lowercased, "beginning" looked for first.
normalize_sequence_position(raw) ==
    LET low == Lower(raw)
    IN  IF In("beginning", low) THEN "beginning"
        ELSE IF In("end", low) THEN "end"
        ELSE "middle"

\* The keywords the design document names.
INTRODUCTORY_KEYWORDS == {"intro"}
ADVANCED_KEYWORDS == {"advanced topics"}

\* Section 4.3, with the advanced keywords looked for first.
course_level_advanced_first(full_text, introductory, advanced) ==
    LET low == Lower(full_text)
    IN  IF \E w \in advanced : In(w, low) THEN "advanced"
        ELSE IF \E w \in introductory : In(w, low) THEN "introductory"
        ELSE "intermediate"

\* Section 4.3: the keyword heuristic over the lowercased full text,
\* introductory keywords first.
course_level(full_text, introductory, advanced) ==
    LET low == Lower(full_text)
    IN  IF \E w \in introductory : In(w, low) THEN "introductory"
        ELSE IF \E w \in advanced : In(w, low) THEN "advanced"
        ELSE "intermediate"

IngestedFields == {"url", "content", "date_saved"}

DerivedFields ==
    {"language", "course_level", "cs_concepts", "context",
     "sequence_position", "vector_embedding", "content_sample",
     "metadata_processed"}

\* A record the enrichment pass has written its fields on.
Processed(record) ==
    "metadata_processed" \in DOMAIN record /\ record.metadata_processed

\* The four classification prompts, in the order they are issued.
ClassificationCalls ==
    <<"language", "context", "sequence_position", "cs_concepts">>

\* The sub-steps of the per-record pipeline, in order.
Pipeline == <<"extract">> \o ClassificationCalls \o <<"embed", "write">>

StepAfter(step) ==
    Pipeline[1 + CHOOSE n \in 1..(Len(Pipeline) - 1) : Pipeline[n] = step]

CallFailed == [ok |-> FALSE, text |-> ""]

\* What the language model answers to a prompt, or that the call failed.
Completions(call) ==
    {CallFailed} \cup
    {[ok |-> TRUE, text |-> t] :
        t \in CASE call = "language" -> {"Python"}
                [] call = "context" -> {"labor economics"}
                [] call = "sequence_position" -> {"Beginning and end"}
                [] call = "cs_concepts" -> {"loops, recursion"}}

\* The documented default of a field whose call failed; language has none.
Default(call) ==
    CASE call = "language" -> None
      [] call = "context" -> Str("general programming")
      [] call = "sequence_position" -> Str("middle")
      [] call = "cs_concepts" -> Str("")

\* The field value an answer gives.
FieldOf(call, answer) ==
    IF call = "sequence_position"
    THEN Str(normalize_sequence_position(answer))
    ELSE Str(answer)

\* What the embedding model returns, or that the call failed.
Embeddings == {CallFailed, [ok |-> TRUE, text |-> "[0.25, 0.5]"]}

\* The record after the single update at the end of the pipeline.
Enriched(record, fields, full_text) ==
    [url |-> record.url,
     content |-> record.content,
     date_saved |-> record.date_saved,
     language |-> fields.language,
     course_level |-> Str(course_level(full_text, INTRODUCTORY_KEYWORDS,
                                       ADVANCED_KEYWORDS)),
     cs_concepts |-> fields.cs_concepts,
     context |-> fields.context,
     sequence_position |-> fields.sequence_position,
     vector_embedding |-> fields.vector_embedding,
     content_sample |-> Str(Prefix(full_text, 500)),
     metadata_processed |-> TRUE]

Step(name, ok) == [call |-> name, ok |-> ok]

\* The enrichment pass starts, for the first time or again: it scans the
\* collection from its first record.
enrich_notebooks ==
    /\ epc \in {"start", "crashed", "finished"}
    /\ epc' = "scan"
    /\ doc' = 1
    /\ text' = ""
    /\ metadata' = EmptyMetadata
    /\ calls' = <<>>
    /\ UNCHANGED crashes
    /\ UNCHANGED <<ingest, unit, export, search>>

\* The scan: a record that has its metadata is passed over, the pipeline
\* starts on one that lacks it, the pass ends after the last record.
next_record ==
    /\ epc = "scan"
    /\ IF doc > Len(collection)
       THEN epc' = "finished" /\ doc' = doc
       ELSE IF Processed(collection[doc])
       THEN epc' = epc /\ doc' = doc + 1
       ELSE epc' = "extract" /\ doc' = doc
    /\ text' = ""
    /\ metadata' = EmptyMetadata
    /\ calls' = <<>>
    /\ UNCHANGED crashes
    /\ UNCHANGED <<ingest, unit, export, search>>

extract_text ==
    /\ epc = "extract"
    /\ text' = extract_text_from_notebook(collection[doc].content)
    /\ calls' = Append(calls, Step("extract", TRUE))
    /\ epc' = StepAfter(epc)
    /\ UNCHANGED <<doc, metadata, crashes>>
    /\ UNCHANGED <<ingest, unit, export, search>>

\* One classification prompt: its answer, or its default when the call fails;
\* in both cases the next sub-step follows.
classify(call) ==
    /\ epc = call
    /\ \E answer \in Completions(call) :
         /\ metadata' = [metadata EXCEPT ![call] =
                            IF answer.ok THEN FieldOf(call, answer.text)
                            ELSE Default(call)]
         /\ calls' = Append(calls, Step(call, answer.ok))
    /\ epc' = StepAfter(epc)
    /\ UNCHANGED <<doc, text, crashes>>
    /\ UNCHANGED <<ingest, unit, export, search>>

\* The language prompt with its answer written to the record at once.
classify_language_saved ==
    /\ epc = "language"
    /\ \E answer \in Completions("language") :
         LET value == IF answer.ok THEN FieldOf("language", answer.text)
                      ELSE Default("language")
         IN  /\ metadata' = [metadata EXCEPT !["language"] = value]
             /\ calls' = Append(calls, Step("language", answer.ok))
             /\ collection' = [collection EXCEPT ![doc] =
                    [f \in DOMAIN @ \cup {"language"} |->
                        IF f = "language" THEN value ELSE @[f]]]
    /\ epc' = StepAfter(epc)
    /\ UNCHANGED <<doc, text, crashes>>
    /\ UNCHANGED <<environ, pc, exc, client, resource_links, colab_links,
                   github_links, i, content, notebook, inflight, clock, log>>
    /\ UNCHANGED <<unit, export, search>>

classify_language == classify("language")

\* The context prompt whose failure ends the work on the record.
classify_context_fatal ==
    /\ epc = "context"
    /\ \E answer \in Completions("context") :
         /\ metadata' = [metadata EXCEPT !["context"] =
                            IF answer.ok THEN FieldOf("context", answer.text)
                            ELSE Default("context")]
         /\ calls' = Append(calls, Step("context", answer.ok))
         /\ epc' = IF answer.ok THEN StepAfter(epc) ELSE "scan"
         /\ doc' = IF answer.ok THEN doc ELSE doc + 1
    /\ UNCHANGED <<text, crashes>>
    /\ UNCHANGED <<ingest, unit, export, search>>

classify_context == classify("context")

classify_sequence_position == classify("sequence_position")

classify_cs_concepts == classify("cs_concepts")

\* Section 4.4: the vector, or absence when the call fails.
generate_embedding ==
    /\ epc = "embed"
    /\ \E answer \in Embeddings :
         /\ metadata' = [metadata EXCEPT !.vector_embedding =
                            IF answer.ok THEN List(answer.text) ELSE None]
         /\ calls' = Append(calls, Step("embed", answer.ok))
    /\ epc' = StepAfter(epc)
    /\ UNCHANGED <<doc, text, crashes>>
    /\ UNCHANGED <<ingest, unit, export, search>>

\* Section 4.5: the one update that writes all derived fields; a database
\* failure is logged and the record is left as it was.
update_metadata ==
    /\ epc = "write"
    /\ \E ok \in BOOLEAN :
         collection' = IF ok
                       THEN [collection EXCEPT ![doc] =
                                Enriched(@, metadata, text)]
                       ELSE collection
    /\ epc' = "scan"
    /\ doc' = doc + 1
    /\ UNCHANGED <<text, metadata, calls, crashes>>
    /\ UNCHANGED <<environ, pc, exc, client, resource_links, colab_links,
                   github_links, i, content, notebook, inflight, clock, log>>
    /\ UNCHANGED <<unit, export, search>>

\* The process dies in the middle of a record's pipeline: what it held in
\* memory is gone.
crash ==
    /\ epc \in {Pipeline[n] : n \in 1..Len(Pipeline)}
    /\ crashes < MaxCrashes
    /\ crashes' = crashes + 1
    /\ epc' = "crashed"
    /\ text' = ""
    /\ metadata' = EmptyMetadata
    /\ calls' = <<>>
    /\ UNCHANGED doc
    /\ UNCHANGED <<ingest, unit, export, search>>

\* The collections an enrichment pass starts from: ingested records.
IngestedRecords ==
    {Notebook(GITHUB_LINK, Dict(NOTEBOOK_JSON), 0),
     Notebook(GITHUB_REPO_LINK, Dict(CELLS_NOTEBOOK_JSON), 1)}

InitEnrich ==
    /\ environ = [set |-> TRUE, val |-> "mongodb://localhost:27017"]
    /\ pc = "done"
    /\ exc = "none"
    /\ client = <<environ.val>>
    /\ resource_links = <<>>
    /\ colab_links = <<>>
    /\ github_links = <<>>
    /\ i = 0
    /\ content = None
    /\ notebook = NoNotebook
    /\ inflight = {}
    /\ collection \in UNION {[1..n -> IngestedRecords] : n \in 0..MaxRecords}
    /\ clock = 2
    /\ log = <<>>
    /\ InitUnit
    /\ InitExport
    /\ epc = "start"
    /\ doc = 0
    /\ text = ""
    /\ metadata = EmptyMetadata
    /\ calls = <<>>
    /\ crashes = 0
    /\ InitSearch

NextEnrich ==
    \/ enrich_notebooks
    \/ next_record
    \/ extract_text
    \/ classify_language
    \/ classify_context
    \/ classify_sequence_position
    \/ classify_cs_concepts
    \/ generate_embedding
    \/ update_metadata
    \/ crash

EnrichSpec == InitEnrich /\ [][NextEnrich]_vars

(***************************************************************************)
(* The two text functions of the classification applied on their own, to   *)
(* texts built from up to MaxWords pieces, under keyword sets that hold    *)
(* the keywords the design document names.                                 *)
(***************************************************************************)
MaxWords == 2

TextPieces ==
    {"Beginning and ", "end", "this is the ", "somewhere in the middle",
     "Intro to ", "Advanced Topics", "THE END", "for beginners",
     "Graduate seminar", "b"}

Texts ==
    {Concat(ps) : ps \in UNION {[1..n -> TextPieces] : n \in 0..MaxWords}}

KeywordSets ==
    {[introductory |-> INTRODUCTORY_KEYWORDS \cup more_intro,
      advanced |-> ADVANCED_KEYWORDS \cup more_advanced] :
        more_intro \in SUBSET {"beginner"},
        more_advanced \in SUBSET {"graduate"}}

InitText ==
    /\ environ = [set |-> FALSE, val |-> ""]
    /\ pc = "import"
    /\ exc = "none"
    /\ client = <<>>
    /\ resource_links = <<>>
    /\ colab_links = <<>>
    /\ github_links = <<>>
    /\ i = 0
    /\ content = None
    /\ notebook = NoNotebook
    /\ inflight = {}
    /\ collection = <<>>
    /\ clock = 1
    /\ log = <<>>
    /\ InitExport
    /\ InitEnrichment
    /\ InitSearch
    /\ fn = "none"
    /\ arg \in Texts
    /\ world \in KeywordSets
    /\ result = Return(None)

apply_normalize_sequence_position ==
    /\ fn = "none"
    /\ fn' = "normalize_sequence_position"
    /\ result' = Return(Str(normalize_sequence_position(arg)))
    /\ UNCHANGED <<arg, world>>
    /\ UNCHANGED ingest
    /\ UNCHANGED export
    /\ UNCHANGED derived

apply_course_level ==
    /\ fn = "none"
    /\ fn' = "course_level"
    /\ result' = Return(Str(course_level(arg, world.introductory,
                                         world.advanced)))
    /\ UNCHANGED <<arg, world>>
    /\ UNCHANGED ingest
    /\ UNCHANGED export
    /\ UNCHANGED derived

NextText ==
    \/ apply_normalize_sequence_position
    \/ apply_course_level

TextSpec == InitText /\ [][NextText]_vars

(***************************************************************************)
(* Search, as the design document describes it (section 4.6): its code is  *)
(* not in src/.                                                            *)
(***************************************************************************)
\* Largest limit a search asks for.
MaxLimit == 2

\* Enriched records: four with an embedding, one of them with a language call
\* that failed, and one whose embedding call failed.
Corpus ==
    <<Enriched(Notebook(GITHUB_LINK, Dict(CELLS_NOTEBOOK_JSON), 0),
               [language |-> Str("Python"),
                context |-> Str("labor economics"),
                sequence_position |-> Str("beginning"),
                cs_concepts |-> Str("loops, recursion"),
                vector_embedding |-> List("[0.25, 0.5]")],
               "Intro b()"),
      Enriched(Notebook(GITHUB_REPO_LINK, Dict(CELLS_NOTEBOOK_JSON), 1),
               [language |-> Str("Python"),
                context |-> Str("economics"),
                sequence_position |-> Str("beginning"),
                cs_concepts |-> Str(""),
                vector_embedding |-> List("[0.5, 0.25]")],
               "Intro b()"),
      Enriched(Notebook(GITHUB_LINK, Dict(NOTEBOOK_JSON), 2),
               [language |-> None,
                context |-> Str("general programming"),
                sequence_position |-> Str("middle"),
                cs_concepts |-> Str(""),
                vector_embedding |-> List("[0.5, 0.5]")],
               ""),
      Enriched(Notebook(GITHUB_LINK, Dict(NOTEBOOK_JSON), 3),
               [language |-> Str("R"),
                context |-> Str("economics"),
                sequence_position |-> Str("end"),
                cs_concepts |-> Str("regression"),
                vector_embedding |-> List("[0.75, 0.5]")],
               "Advanced Topics"),
      Enriched(Notebook(GITHUB_REPO_LINK, Dict(NOTEBOOK_JSON), 4),
               [language |-> Str("Python"),
                context |-> Str("economics"),
                sequence_position |-> Str("beginning"),
                cs_concepts |-> Str(""),
                vector_embedding |-> None],
               "")>>

\* The filters a search may give: each one given or not.
FilterSets ==
    [language : {None, Str("Python")},
     course_level : {None, Str("introductory")},
     context : {None, Str("economics")},
     sequence_position : {None, Str("beginning")}]

\* One filter: not given, or met by the record (context by substring).
passes(record, given, name) ==
    \/ given[name] = None
    \/ IF name = "context"
       THEN record[name] # None /\ In(given[name].repr, record[name].repr)
       ELSE record[name] = given[name]

\* The post-filter: all given filters.
matches(record, given) ==
    /\ passes(record, given, "language")
    /\ passes(record, given, "course_level")
    /\ passes(record, given, "context")
    /\ passes(record, given, "sequence_position")

\* What an approximate nearest-neighbour search may return for the query: at
\* most num records, each with an embedding, none twice, in some order.
Neighbours(records, num) ==
    LET embedded == {n \in 1..Len(records) :
                        records[n].vector_embedding # None}
        size == Min(num, Cardinality(embedded))
    IN  {[p \in 1..size |-> records[order[p]]] :
            order \in {o \in [1..size -> embedded] :
                          \A a, b \in 1..size : a # b => o[a] # o[b]}}

\* The vector search over the stored embeddings answers with the candidates:
\* limit * 3 of them at most.
vector_search_returns ==
    /\ spc = "ready"
    /\ candidates' \in Neighbours(collection, limit * 3)
    /\ spc' = "candidates"
    /\ UNCHANGED <<filters, limit, results>>
    /\ UNCHANGED <<ingest, unit, export, enrichment>>

\* The post-filter without the cut to the limit.
search_returns_uncut ==
    /\ spc = "candidates"
    /\ results' = SelectSeq(candidates, LAMBDA r : matches(r, filters))
    /\ spc' = "returned"
    /\ UNCHANGED <<filters, limit, candidates>>
    /\ UNCHANGED <<ingest, unit, export, enrichment>>

\* The post-filter, then the cut to the limit.
search_returns ==
    /\ spc = "candidates"
    /\ results' = Prefix(SelectSeq(candidates,
                                   LAMBDA r : matches(r, filters)), limit)
    /\ spc' = "returned"
    /\ UNCHANGED <<filters, limit, candidates>>
    /\ UNCHANGED <<ingest, unit, export, enrichment>>

InitSearching ==
    /\ environ = [set |-> TRUE, val |-> "mongodb://localhost:27017"]
    /\ pc = "done"
    /\ exc = "none"
    /\ client = <<environ.val>>
    /\ resource_links = <<>>
    /\ colab_links = <<>>
    /\ github_links = <<>>
    /\ i = 0
    /\ content = None
    /\ notebook = NoNotebook
    /\ inflight = {}
    /\ collection \in {SubSeq(Corpus, 1, n) : n \in 0..Len(Corpus)}
    /\ clock = 5
    /\ log = <<>>
    /\ InitUnit
    /\ InitExport
    /\ InitEnrichment
    /\ spc = "ready"
    /\ filters \in FilterSets
    /\ limit \in 1..MaxLimit
    /\ candidates = <<>>
    /\ results = <<>>

NextSearch ==
    \/ vector_search_returns
    \/ search_returns

SearchSpec == InitSearching /\ [][NextSearch]_vars

(***************************************************************************)
(* Properties.                                                             *)
(***************************************************************************)
SoftFailure(e) ==
    \/ e.ev = "raised"
    \/ e.ev = "response" /\ ~json_loads(e.what).ok

\* C1: fetch_github_notebook and fetch_colab_notebook never raise to the
\* caller: whatever the URL and whatever the download does (connection
\* error, non-success status, body that is not JSON), each returns the parsed
\* JSON document or None.
FetchNeverRaises ==
    fn \in {"fetch_github_notebook", "fetch_colab_notebook"} =>
        /\ result.raised = "none"
        /\ \/ result.ret = None
           \/ /\ world.error = "none"
              /\ json_loads(world.text).ok
              /\ result.ret = json_loads(world.text).val

\* A download whose body is not JSON came back as None.
FetchNeverRaisesWitness ==
    /\ fn = "fetch_github_notebook"
    /\ world.error = "none"
    /\ world.status = 200
    /\ ~json_loads(world.text).ok
    /\ result = Return(None)

\* C2 as claimed: whenever the fetch of a GitHub link returned a JSON
\* document, save_to_mongodb inserts the record {url: the link, content: the
\* document, date_saved: now} and the insert appends it to the collection.
EveryFetchedDocumentIsPersisted ==
    [][/\ (pc = "save" /\ content # None) =>
            /\ pc' = "insert"
            /\ notebook' = Notebook(github_links[i], content, clock)
       /\ pc = "insert" => collection' = Append(collection, notebook)]_vars

\* C2 as amended: whenever the fetch of a GitHub link returned a non-empty
\* JSON object, save_to_mongodb issues one insert of {url: the link, content:
\* the document, date_saved: now}; an insert that succeeds appends that record
\* and leaves every existing record as it was, and the loop moves on to the
\* next link; nothing else changes the collection.
FetchedNotebookIsPersisted ==
    [][/\ (pc = "save" /\ content.type = "dict" /\ Truthy(content)) =>
            /\ pc' = "insert"
            /\ notebook' = Notebook(github_links[i], content, clock)
            /\ log' = Append(log, Event("insert_one", i, github_links[i]))
       /\ (pc = "insert" /\ log'[Len(log')].ev = "inserted") =>
            /\ collection' = Append(collection, notebook)
            /\ pc' = "github"
            /\ i' = i + 1
       /\ collection' # collection =>
            /\ pc = "insert"
            /\ Len(collection') = Len(collection) + 1
            /\ SubSeq(collection', 1, Len(collection)) = collection]_vars

\* The same link ingested twice in one run left two records with its url.
FetchedNotebookIsPersistedWitness ==
    /\ pc = "done"
    /\ Len(github_links) = 2
    /\ github_links[1] = github_links[2]
    /\ Len(collection) >= 2
    /\ collection[Len(collection)].url = github_links[1]
    /\ collection[Len(collection) - 1].url = github_links[1]
    /\ collection[Len(collection)].content = Dict(NOTEBOOK_JSON)
    /\ collection[Len(collection)].date_saved # collection[Len(collection) - 1].date_saved

\* C3: when the fetch of a link failed softly (the request raised, the status
\* was not a success, the body was not JSON) the fetch returns to the loop, no
\* insert is issued for that link, the collection is unchanged and the loop
\* moves on to the next link.
SoftFailureWritesNothing ==
    [][/\ pc = "get" => (collection' = collection /\ pc' = "save" /\ i' = i)
       /\ (pc = "save" /\ SoftFailure(log[Len(log)])) =>
            /\ collection' = collection
            /\ log' = log
            /\ inflight' = {}
            /\ pc' = "github"
            /\ i' = i + 1]_vars

\* A link whose fetch failed softly was followed by the GET of the next link,
\* with nothing stored.
SoftFailureWritesNothingWitness ==
    /\ Len(log) >= 2
    /\ log[1].ev = "GET" /\ log[1].link = 1
    /\ SoftFailure(log[2])
    /\ Len(log) >= 3
    /\ log[3].ev = "GET" /\ log[3].link = 2
    /\ collection \in StoredBefore

\* C4 as claimed: a database write failure does not end the process: no
\* run is ever stopped by the exception insert_one raised.
WriteFailureIsNotFatal ==
    \A n \in 1..Len(log) :
        log[n].ev = "insert_failed" => (pc # "crashed" /\ exc = "none")

\* C5: with the connection string missing (unset or empty) the process stops
\* at the ValueError of the module level check: no MongoClient is created, no
\* request is issued, no record is written, and nothing runs afterwards.
MissingConfigHalts ==
    /\ [](~Truthy(getenv(environ)) =>
            /\ pc \in {"import", "raised"}
            /\ client = <<>>
            /\ log = <<>>
            /\ inflight = {}
            /\ collection \in StoredBefore)
    /\ [][~Truthy(getenv(environ)) =>
            /\ pc' = "raised"
            /\ exc' = "ValueError"
            /\ collection' = collection]_vars

\* The process stopped at the check with links waiting to be processed.
MissingConfigHaltsWitness ==
    /\ pc = "raised"
    /\ exc = "ValueError"
    /\ ~environ.set
    /\ Len(resource_links) = MaxLinks
    /\ client = <<>>

\* A GitHub-style URL: https://github.com/<owner>/<repo>, alone or followed by
\* /blob/<branch>/<path>, every path segment non-empty, no query.
IsGithubStyle(u) ==
    LET p     == urlparse(u)
        parts == Split(p.path, "/")
    IN  /\ p.scheme = "https"
        /\ p.netloc = "github.com"
        /\ p.query = ""
        /\ Len(parts) >= 3
        /\ \A k \in 2..Len(parts) : parts[k] # ""
        /\ Len(parts) >= 4 => (parts[4] = "blob" /\ Len(parts) >= 6)

\* C6 as claimed: the raw-content rewrite is idempotent on GitHub-style
\* URLs: rewriting the rewritten URL changes nothing.
RewriteIsIdempotent ==
    (fn = "rewrite" /\ IsGithubStyle(arg)) =>
        rewrite(result.ret.repr) = result.ret.repr

\* C7 as claimed: the rewrite of a URL that does not contain github.com has
\* the host of the URL.
RewriteKeepsHost ==
    (fn = "rewrite" /\ ~In("github.com", arg)) =>
        urlparse(result.ret.repr).netloc = urlparse(arg).netloc

InSeq(x, seq) == \E k \in 1..Len(seq) : seq[k] = x

\* C8 as claimed: once main has filtered resource_links, every entry is in
\* exactly one of colab_links and github_links.
MainPartitionsLinks ==
    pc \in {"colab", "github", "get", "save", "insert", "done", "crashed"} =>
        \A k \in 1..Len(resource_links) :
            InSeq(resource_links[k], colab_links)
                # InSeq(resource_links[k], github_links)

\* C9: process_colab_links does nothing, whatever colab_links holds: it
\* issues no request (no download, no credentials), writes no record and
\* returns.
ColabIngestionIsNoOp ==
    [][pc = "colab" =>
            /\ collection' = collection
            /\ log' = log
            /\ inflight' = inflight
            /\ exc' = exc
            /\ pc' = "github"]_vars

\* process_colab_links returned from a list of Colab links with no request
\* issued and nothing stored.
ColabIngestionIsNoOpWitness ==
    /\ pc = "github"
    /\ Len(colab_links) = MaxLinks
    /\ log = <<>>
    /\ inflight = {}
    /\ collection \in StoredBefore

\* C10: ingestion handles one item at a time, in list order: no request is
\* issued before process_colab_links has returned, at most one request is
\* outstanding, and the GET of a link is issued only after the previous link's
\* fetch has been answered and its insert, if one was issued, has come back.
OneItemAtATime ==
    /\ Cardinality(inflight) <= 1
    /\ inflight # {} => (Len(log) > 0 /\ inflight = {log[Len(log)]})
    /\ pc \in {"import", "raised", "loaded", "colab"} =>
            (log = <<>> /\ inflight = {})
    /\ \A n \in 1..Len(log) :
        /\ log[n].link \in 1..Len(github_links)
        /\ n = 1 => (log[n].ev = "GET" /\ log[n].link = 1)
        /\ (log[n].ev = "GET" /\ n > 1) =>
            /\ log[n - 1].link = log[n].link - 1
            /\ log[n - 1].ev \in {"raised", "response", "inserted"}
        /\ log[n].ev \in {"raised", "response"} =>
            (log[n - 1].ev = "GET" /\ log[n - 1].link = log[n].link)
        /\ log[n].ev = "insert_one" =>
            (log[n - 1].ev = "response" /\ log[n - 1].link = log[n].link)
        /\ log[n].ev \in {"inserted", "insert_failed"} =>
            (log[n - 1].ev = "insert_one" /\ log[n - 1].link = log[n].link)

\* The second link's GET went out after the first link's insert came back.
OneItemAtATimeWitness ==
    /\ Len(log) >= 4
    /\ log[1] = Event("GET", 1, rewrite(github_links[1]))
    /\ log[2].ev = "response"
    /\ log[3] = Event("insert_one", 1, github_links[1])
    /\ log[4] = Event("inserted", 1, github_links[1])
    /\ Len(log) >= 5
    /\ log[5] = Event("GET", 2, rewrite(github_links[2]))
    /\ inflight = {log[5]}

InsertedContentIsDict ==
    /\ pc = "insert" => notebook.content.type = "dict"
    /\ \A k \in 1..Len(collection) : collection[k].content.type = "dict"

\* C12: no operation of the system (a step of an ingestion run, a step of an
\* export) removes a stored record or changes the url a record was created
\* with: the collection only grows, every record stays where it is with its
\* url and its creation time.
RecordsAreKept ==
    [][/\ Len(collection') >= Len(collection)
       /\ \A k \in 1..Len(collection) :
            /\ collection'[k].url = collection[k].url
            /\ collection'[k].date_saved = collection[k].date_saved]_vars

\* An ingestion run added a record to the one stored before, and the export
\* that followed wrote a file.
RecordsAreKeptWitness ==
    /\ pc = "exported"
    /\ Len(collection) = 2
    /\ collection[1] = Notebook(GITHUB_LINK, Dict(NOTEBOOK_JSON), 0)
    /\ collection[2].url = GITHUB_REPO_LINK
    /\ files # {}

\* C13 as claimed: the export writes one file per record: when it has ended,
\* the files written in full are as many as the records it counted as
\* exported.
ExportWritesOneFilePerRecord ==
    pc = "exported" => Cardinality({f \in files : f.complete}) = count

\* C14 as claimed: every record marked metadata_processed carries a
\* language, a course_level, a context, a sequence_position and a
\* content_sample that are not null, whichever classification calls failed.
ProcessedRecordsAreComplete ==
    \A n \in 1..Len(collection) :
        Processed(collection[n]) =>
            \A f \in {"language", "course_level", "context",
                      "sequence_position", "content_sample"} :
                collection[n][f] # None

\* C15: the derived fields of a record are written in one update at the end
\* of its pipeline: a stored record has none of them or all of them, only the
\* final update changes the collection, the record whose pipeline is under
\* way or died has none of them, and the update comes after all sub-steps
\* were done in this pass, so a pass that runs again redoes them all.
DerivedFieldsAreWrittenAtOnce ==
    /\ [](/\ \A n \in 1..Len(collection) :
                \/ DOMAIN collection[n] = IngestedFields
                \/ DOMAIN collection[n] = IngestedFields \cup DerivedFields
          /\ (epc \in {"extract", "language", "context", "sequence_position",
                       "cs_concepts", "embed", "write", "crashed"}
                => /\ DOMAIN collection[doc] = IngestedFields
                   /\ ~Processed(collection[doc]))
          /\ (epc = "write"
                => [n \in 1..Len(calls) |-> calls[n].call]
                     = <<"extract", "language", "context",
                         "sequence_position", "cs_concepts", "embed">>))
    /\ [][collection' # collection => epc = "write" /\ epc' = "scan"]_vars

\* A pass died in the middle of the only record's pipeline, and a later pass
\* enriched that record.
DerivedFieldsAreWrittenAtOnceWitness ==
    /\ crashes = 1
    /\ Len(collection) = 1
    /\ Processed(collection[1])
    /\ epc = "finished"

\* C16: a classification call that fails does not stop the pipeline: the next
\* call follows whatever the answer, and the field of a failed call has its
\* documented default, in the gathered fields and in the record written.
ClassificationCallsAreIndependent ==
    /\ [](\A n \in 1..Len(calls) :
            ~calls[n].ok =>
                /\ calls[n].call = "sequence_position"
                     => metadata.sequence_position = Str("middle")
                /\ calls[n].call = "context"
                     => metadata.context = Str("general programming")
                /\ calls[n].call = "cs_concepts"
                     => metadata.cs_concepts = Str(""))
    /\ [][/\ (epc = "language" /\ epc' # "crashed")
                => epc' = "context" /\ doc' = doc
          /\ (epc = "context" /\ epc' # "crashed")
                => epc' = "sequence_position" /\ doc' = doc
          /\ (epc = "sequence_position" /\ epc' # "crashed")
                => epc' = "cs_concepts" /\ doc' = doc
          /\ (epc = "cs_concepts" /\ epc' # "crashed")
                => epc' = "embed" /\ doc' = doc
          /\ (epc = "write" /\ collection' # collection)
                => /\ Processed(collection'[doc])
                   /\ collection'[doc].sequence_position
                        = metadata.sequence_position
                   /\ collection'[doc].context = metadata.context
                   /\ collection'[doc].cs_concepts = metadata.cs_concepts]_vars

\* All four classification calls failed and the record was enriched, with
\* the defaults.
ClassificationCallsAreIndependentWitness ==
    /\ epc = "scan"
    /\ doc = 2
    /\ Len(calls) = 6
    /\ \A n \in 2..5 : ~calls[n].ok
    /\ Processed(collection[1])
    /\ collection[1].sequence_position = Str("middle")
    /\ collection[1].context = Str("general programming")
    /\ collection[1].cs_concepts = Str("")

\* Whether the word occurs in the text, letter case set aside: some place of
\* the text holds the letters of the word, each in either case.
OccursIgnoringCase(word, txt) ==
    \E p \in 1..Len(txt) :
        /\ p + Len(word) - 1 <= Len(txt)
        /\ \A q \in 1..Len(word) :
              LowerChar(SubSeq(txt, p + q - 1, p + q - 1))
                = SubSeq(word, q, q)

\* C17: the normalized sequence_position is "beginning" when the response
\* holds "beginning" in any letter case, else "end" when it holds "end" in
\* any letter case, else "middle"; it is always one of the three.
SequencePositionNormalization ==
    fn = "normalize_sequence_position" =>
        /\ result.raised = "none"
        /\ result.ret \in {Str("beginning"), Str("middle"), Str("end")}
        /\ result.ret = Str("beginning")
             <=> OccursIgnoringCase("beginning", arg)
        /\ result.ret = Str("end")
             <=> /\ ~OccursIgnoringCase("beginning", arg)
                 /\ OccursIgnoringCase("end", arg)
        /\ arg = "this is the end" => result.ret = Str("end")
        /\ arg = "somewhere in the middle" => result.ret = Str("middle")
        /\ arg = "b" => result.ret = Str("middle")

\* The response "Beginning and end" holds both words and gives "beginning".
SequencePositionNormalizationWitness ==
    /\ fn = "normalize_sequence_position"
    /\ arg = "Beginning and end"
    /\ result.ret = Str("beginning")

\* C18: the course level is "introductory" when the text holds an
\* introductory keyword in any letter case, whatever advanced keywords it
\* holds, else "advanced" when it holds an advanced keyword, else
\* "intermediate".
CourseLevelHeuristic ==
    fn = "course_level" =>
        LET intro == \E w \in world.introductory : OccursIgnoringCase(w, arg)
            adv   == \E w \in world.advanced : OccursIgnoringCase(w, arg)
        IN  /\ result.raised = "none"
            /\ intro => result.ret = Str("introductory")
            /\ (~intro /\ adv) => result.ret = Str("advanced")
            /\ (~intro /\ ~adv) => result.ret = Str("intermediate")

\* A text with an introductory and an advanced keyword is introductory.
CourseLevelHeuristicWitness ==
    /\ fn = "course_level"
    /\ arg = "Intro to Advanced Topics"
    /\ result.ret = Str("introductory")

\* C19: a search returns at most limit results, and every result meets every
\* filter that was given: its language, its course_level and its
\* sequence_position are the ones asked for, its context holds the one asked
\* for.
SearchResultsMeetFiltersAndLimit ==
    spc = "returned" =>
        /\ Len(results) <= limit
        /\ \A n \in 1..Len(results) :
              /\ filters.language # None
                   => results[n].language = filters.language
              /\ filters.course_level # None
                   => results[n].course_level = filters.course_level
              /\ filters.sequence_position # None
                   => results[n].sequence_position = filters.sequence_position
              /\ filters.context # None
                   => \E p \in 1..Len(results[n].context.repr) :
                         SubSeq(results[n].context.repr, p,
                                p + Len(filters.context.repr) - 1)
                           = filters.context.repr

\* A search with all four filters and limit 1 had two candidates that met
\* them and returned one.
SearchResultsMeetFiltersAndLimitWitness ==
    /\ spc = "returned"
    /\ limit = 1
    /\ \A name \in DOMAIN filters : filters[name] # None
    /\ Len(SelectSeq(candidates, LAMBDA r : matches(r, filters))) = 2
    /\ Len(results) = 1

\* C21: a record whose export fails (no url, no content, open or json.dump
\* raising) does not end the export: the loop goes on to the next record and
\* ends only after the last one, with no exception left. count goes up by
\* one exactly in the iterations that leave the record's whole file in the
\* directory and stays the same in all others, so the reported count is the
\* number of records written.
ExportSkipsFailedRecords ==
    /\ [](pc \in {"export", "exported"} =>
            /\ Len(outcomes) = j - 1
            /\ count = Cardinality({n \in 1..Len(outcomes) :
                                       outcomes[n] = "written"})
            /\ exc = "none")
    /\ [](pc = "exported" => Len(outcomes) = Len(collection))
    /\ [][(pc = "export" /\ j <= Len(collection)) =>
            /\ pc' = "export"
            /\ j' = j + 1
            /\ outcomes'[j] = "written" <=> count' = count + 1
            /\ outcomes'[j] # "written" => count' = count
            /\ count' = count + 1 =>
                 [name |-> export_filename(collection[j].url, count),
                  data |-> collection[j].content,
                  complete |-> TRUE] \in files']_vars

\* The first record has no content and left an empty file, the second was
\* written: the export ended with count 1.
ExportSkipsFailedRecordsWitness ==
    /\ pc = "exported"
    /\ outcomes = <<"no_content", "written">>
    /\ count = 1
    /\ \E f \in files : ~f.complete

====
